---- MODULE Spec2Model ----
(***************************************************************************)
(* A model of tachyfont.promise / tachyfont.chainedPromises                *)
(* (tachyfontpromise.js) and of the single-blob store accessors            *)
(* tachyfont.Persist.saveData / getData (persist_idb.js).                  *)
(*                                                                         *)
(* A unit (tachyfont.promise) is identified by its issue ordinal: 0 is the *)
(* promise the constructor adds by hand, u >= 1 is the u-th object         *)
(* returned by getChainedPromise.  The goog.Promise of unit u is named by  *)
(* the same number.                                                        *)
(***************************************************************************)
EXTENDS Integers, Sequences, FiniteSets, TLC

\* ---------------------------------------------------------------- bounds
MaxUnits == 3        \* getChainedPromise is called at most this often
MaxSettleCalls == 2  \* resolve/reject are called at most this often per unit

\* ------------------------------------------------------ program constants
PRECEDING_PROMISE == "01"
RESOLVE_CHAINED_COUNT == "02"
REJECT_CHAINED_COUNT == "03"
LINGERING_PROMISE == "04"
Error_ == {PRECEDING_PROMISE, RESOLVE_CHAINED_COUNT, REJECT_CHAINED_COUNT,
           LINGERING_PROMISE}

GiveUpCount == 10    \* if (this.timerReportCount_ >= 10)

Undefined == -1      \* the value of a field that was never assigned

\* the key every blob is stored under: store.put(data, 0) / store.get(0)
PutKey == 0
GetKey == 0
Keys == {0, 1}

IDB_BASE == "base"
IDB_CHARLIST == "charlist"
StoreNames == {IDB_BASE, IDB_CHARLIST}
NoData == "undefined"           \* result of a get on a key never written
Data == {"", "1", "2"}          \* blobs; "" is the empty blob

VARIABLES
  \* tachyfont.chainedPromises
  promises,           \* the queue: sequence of units
  chainedCount_,      \* count of total chained promises
  pendingCount_,      \* count of pending promises
  timerReportCount_,  \* consecutive ticks that saw pendingCount_ != 0
  intervalId_,        \* TRUE while the setInterval timer is armed
  \* tachyfont.promise, one entry per unit created so far
  promise_,           \* state of the unit's goog.Promise
  precedingPromise_,  \* the goog.Promise the unit has to wait for
  \* tachyfont.promise.reportError_
  errors,             \* how often each error number was reported
  \* the callers (history of what they did and saw)
  settleCalls,        \* per unit: number of resolve/reject calls so far
  lastSettle,         \* the latest resolve/reject call: its unit, which of
                      \* the two it was, whether it found a short queue
  retired,            \* the units removed from the queue so far, each with
                      \* the state its promise had when it was removed and
                      \* whether the call that removed it was in turn (the
                      \* first call on the oldest unit nobody had settled,
                      \* no unit settled twice)
  idleTicks,          \* consecutive watchdog ticks that ran while a unit
                      \* nobody had settled yet was outstanding
  observed,           \* per unit: what its caller learnt from the preceding
                      \* promise
  pc,                 \* per unit: where a protocol-following caller is
  op,                 \* per unit: the store operation of that caller
  result,             \* per unit: outcome of the caller's store operation
  \* the IndexedDB behind tachyfont.Persist
  idb,                \* object store name -> key -> value
  request             \* per unit: state of its IDBRequest

vars == <<promises, chainedCount_, pendingCount_, timerReportCount_,
          intervalId_, promise_, precedingPromise_, errors, settleCalls,
          lastSettle, retired, idleTicks, observed, pc, op, result, idb,
          request>>

seqVars == <<promises, chainedCount_, pendingCount_>>
timerVars == <<timerReportCount_, intervalId_>>
storeVars == <<pc, op, result, idb, request>>
histVars == <<settleCalls, lastSettle, retired, idleTicks>>

\* the units getChainedPromise has returned so far
Units == DOMAIN promise_ \ {0}

\* ------------------------------------------------------------ goog.Promise
\* The resolve/reject functions captured at lines 45-47: they settle a
\* pending promise and are ignored on a promise that is already settled.
resolver_(state) == IF state = "pending" THEN "fulfilled" ELSE state
rejecter_(state) == IF state = "pending" THEN "rejected" ELSE state

\* ------------------------------------------------- tachyfont.promise.reportError_
\* The report handed to tachyfont.Reporter (FILE_ID + errNum); whether the
\* reporter is ready to take it is outside this file.
reportError_(errs, errNum) == [errs EXCEPT ![errNum] = @ + 1]

\* (variant: a constructor that leaves firstPromise pending)
Init_pendingFirst ==
  /\ chainedCount_ = 0
  /\ pendingCount_ = 0
  /\ intervalId_ = TRUE
  /\ timerReportCount_ = 0
  /\ promises = <<0>>
  /\ precedingPromise_ = (0 :> 0)
  /\ promise_ = (0 :> "pending")
  /\ errors = [e \in Error_ |-> 0]
  /\ settleCalls = (0 :> 1)
  /\ lastSettle = [unit |-> 0, how |-> "resolve", short |-> TRUE]
  /\ retired = {}
  /\ idleTicks = 0
  /\ observed = (0 :> "notAsked")
  /\ pc = (0 :> "done")
  /\ op = (0 :> [kind |-> "none"])
  /\ result = (0 :> [kind |-> "none"])
  /\ request = (0 :> [state |-> "none"])
  /\ idb = [n \in StoreNames |-> [k \in Keys |-> NoData]]

\* ------------------------------------------------------------ constructor
\* tachyfont.chainedPromises(msg): the state once the constructor returns.
\* firstPromise.resolve() runs with promises.length = 1 and chainedCount_ = 0:
\* it fulfils the promise, reports nothing and shifts nothing.
Init ==
  /\ chainedCount_ = 0
  /\ pendingCount_ = 0
  /\ intervalId_ = TRUE
  /\ timerReportCount_ = 0
  /\ promises = <<0>>
  /\ precedingPromise_ = (0 :> 0)
  /\ promise_ = (0 :> resolver_("pending"))
  /\ errors = [e \in Error_ |-> 0]
  /\ settleCalls = (0 :> 1)
  /\ lastSettle = [unit |-> 0, how |-> "resolve", short |-> TRUE]
  /\ retired = {}
  /\ idleTicks = 0
  /\ observed = (0 :> "notAsked")
  /\ pc = (0 :> "done")
  /\ op = (0 :> [kind |-> "none"])
  /\ result = (0 :> [kind |-> "none"])
  /\ request = (0 :> [state |-> "none"])
  /\ idb = [n \in StoreNames |-> [k \in Keys |-> NoData]]

\* ------------------------------------------------------ getChainedPromise
\* (variant: links to the head of the queue instead of its tail)
precedingUnit_head(q) == q[1]

\* var precedingPromise = this.promises[this.promises.length - 1];
precedingUnit(q) == q[Len(q)]

\* (variant: never assigns precedingPromise_ of the new unit)
getChainedPromise_noLink ==
  /\ chainedCount_' = chainedCount_ + 1
  /\ pendingCount_' = pendingCount_ + 1
  /\ IF Len(promises) = 0
     THEN UNCHANGED <<promises, promise_, precedingPromise_>>
     ELSE LET u == chainedCount_ + 1 IN
          /\ promise_' = promise_ @@ (u :> "pending")
          /\ precedingPromise_' = precedingPromise_ @@ (u :> Undefined)
          /\ promises' = Append(promises, u)

\* (variant: forgets pendingCount_++)
getChainedPromise_noPending ==
  /\ chainedCount_' = chainedCount_ + 1
  /\ pendingCount_' = pendingCount_
  /\ IF Len(promises) = 0
     THEN UNCHANGED <<promises, promise_, precedingPromise_>>
     ELSE LET u == chainedCount_ + 1 IN
          /\ promise_' = promise_ @@ (u :> "pending")
          /\ precedingPromise_' =
               precedingPromise_ @@ (u :> precedingUnit(promises))
          /\ promises' = Append(promises, u)

\* tachyfont.chainedPromises.prototype.getChainedPromise; the unit it returns
\* is chainedCount_ + 1.
getChainedPromise ==
  /\ chainedCount_' = chainedCount_ + 1
  /\ pendingCount_' = pendingCount_ + 1
  /\ IF Len(promises) = 0
     THEN \* promises[-1] is undefined: reading its promise_ throws
          UNCHANGED <<promises, promise_, precedingPromise_>>
     ELSE LET u == chainedCount_ + 1 IN
          /\ promise_' = promise_ @@ (u :> "pending")
          /\ precedingPromise_' =
               precedingPromise_ @@ (u :> precedingUnit(promises))
          /\ promises' = Append(promises, u)

\* What the callers' history records for the unit getChainedPromise
\* returned (nothing when it threw).
NoteIssue(where, what) ==
  LET u == chainedCount_ + 1 IN
  IF u \in DOMAIN promise_'
  THEN /\ settleCalls' = settleCalls @@ (u :> 0)
       /\ observed' = observed @@ (u :> "notAsked")
       /\ pc' = pc @@ (u :> where)
       /\ op' = op @@ (u :> what)
       /\ result' = result @@ (u :> [kind |-> "none"])
       /\ request' = request @@ (u :> [state |-> "none"])
  ELSE UNCHANGED <<settleCalls, observed, pc, op, result, request>>

\* A caller asks for a chained promise.
GetChainedPromise ==
  /\ chainedCount_ < MaxUnits
  /\ getChainedPromise
  /\ NoteIssue("free", [kind |-> "none"])
  /\ UNCHANGED <<timerVars, errors, lastSettle, retired, idleTicks, idb>>

\* ------------------------------------------------------- resolve / reject
\* (variant: shifts the queue but forgets pendingCount_--)
resolve_noDecrement(u) ==
  /\ u \in DOMAIN promise_
  /\ promise_' = [promise_ EXCEPT ![u] = resolver_(@)]
  /\ IF Len(promises) <= 1
     THEN IF chainedCount_ # 0
          THEN errors' = reportError_(errors, RESOLVE_CHAINED_COUNT)
          ELSE UNCHANGED errors
     ELSE UNCHANGED errors
  /\ IF Len(promises) > 1
     THEN /\ promises' = Tail(promises)
          /\ pendingCount_' = pendingCount_
     ELSE UNCHANGED <<promises, pendingCount_>>
  /\ UNCHANGED chainedCount_

\* (variant: shifts whenever the queue is not empty, length >= 1)
resolve_shiftLast(u) ==
  /\ u \in DOMAIN promise_
  /\ promise_' = [promise_ EXCEPT ![u] = resolver_(@)]
  /\ IF Len(promises) <= 1
     THEN IF chainedCount_ # 0
          THEN errors' = reportError_(errors, RESOLVE_CHAINED_COUNT)
          ELSE UNCHANGED errors
     ELSE UNCHANGED errors
  /\ IF Len(promises) >= 1
     THEN /\ promises' = Tail(promises)
          /\ pendingCount_' = pendingCount_ - 1
     ELSE UNCHANGED <<promises, pendingCount_>>
  /\ UNCHANGED chainedCount_

\* (variant: takes a queue of length 2 for a short one as well)
resolve_shortAtTwo(u) ==
  /\ u \in DOMAIN promise_
  /\ promise_' = [promise_ EXCEPT ![u] = resolver_(@)]
  /\ IF Len(promises) <= 2
     THEN IF chainedCount_ # 0
          THEN errors' = reportError_(errors, RESOLVE_CHAINED_COUNT)
          ELSE UNCHANGED errors
     ELSE UNCHANGED errors
  /\ IF Len(promises) > 1
     THEN /\ promises' = Tail(promises)
          /\ pendingCount_' = pendingCount_ - 1
     ELSE UNCHANGED <<promises, pendingCount_>>
  /\ UNCHANGED chainedCount_

\* (variant: reports a short queue without looking at chainedCount_)
resolve_alwaysReport(u) ==
  /\ u \in DOMAIN promise_
  /\ promise_' = [promise_ EXCEPT ![u] = resolver_(@)]
  /\ IF Len(promises) <= 1
     THEN errors' = reportError_(errors, RESOLVE_CHAINED_COUNT)
     ELSE UNCHANGED errors
  /\ IF Len(promises) > 1
     THEN /\ promises' = Tail(promises)
          /\ pendingCount_' = pendingCount_ - 1
     ELSE UNCHANGED <<promises, pendingCount_>>
  /\ UNCHANGED chainedCount_

\* (variant: removes the newest entry, pop(), instead of the oldest)
resolve_pop(u) ==
  /\ u \in DOMAIN promise_
  /\ promise_' = [promise_ EXCEPT ![u] = resolver_(@)]
  /\ IF Len(promises) <= 1
     THEN IF chainedCount_ # 0
          THEN errors' = reportError_(errors, RESOLVE_CHAINED_COUNT)
          ELSE UNCHANGED errors
     ELSE UNCHANGED errors
  /\ IF Len(promises) > 1
     THEN /\ promises' = SubSeq(promises, 1, Len(promises) - 1)
          /\ pendingCount_' = pendingCount_ - 1
     ELSE UNCHANGED <<promises, pendingCount_>>
  /\ UNCHANGED chainedCount_

\* tachyfont.promise.prototype.resolve on unit u (every chained unit has
\* container_ set).
resolve(u) ==
  /\ u \in DOMAIN promise_
  /\ promise_' = [promise_ EXCEPT ![u] = resolver_(@)]
  /\ IF Len(promises) <= 1
     THEN IF chainedCount_ # 0
          THEN errors' = reportError_(errors, RESOLVE_CHAINED_COUNT)
          ELSE UNCHANGED errors
     ELSE UNCHANGED errors
  /\ IF Len(promises) > 1
     THEN /\ promises' = Tail(promises)
          /\ pendingCount_' = pendingCount_ - 1
     ELSE UNCHANGED <<promises, pendingCount_>>
  /\ UNCHANGED chainedCount_

\* (variant: a reject that leaves the queue bookkeeping to resolve)
reject_noShift(u) ==
  /\ u \in DOMAIN promise_
  /\ promise_' = [promise_ EXCEPT ![u] = rejecter_(@)]
  /\ IF Len(promises) <= 1
     THEN IF chainedCount_ # 0
          THEN errors' = reportError_(errors, REJECT_CHAINED_COUNT)
          ELSE UNCHANGED errors
     ELSE UNCHANGED errors
  /\ UNCHANGED <<promises, pendingCount_>>
  /\ UNCHANGED chainedCount_

\* tachyfont.promise.prototype.reject on unit u.
reject(u) ==
  /\ u \in DOMAIN promise_
  /\ promise_' = [promise_ EXCEPT ![u] = rejecter_(@)]
  /\ IF Len(promises) <= 1
     THEN IF chainedCount_ # 0
          THEN errors' = reportError_(errors, REJECT_CHAINED_COUNT)
          ELSE UNCHANGED errors
     ELSE UNCHANGED errors
  /\ IF Len(promises) > 1
     THEN /\ promises' = Tail(promises)
          /\ pendingCount_' = pendingCount_ - 1
     ELSE UNCHANGED <<promises, pendingCount_>>
  /\ UNCHANGED chainedCount_

\* What the callers' history records for a resolve/reject call on u.
NoteSettle(u, how) ==
  /\ settleCalls' = [settleCalls EXCEPT ![u] = @ + 1]
  /\ lastSettle' = [unit |-> u, how |-> how, short |-> Len(promises) <= 1]
  /\ retired' = retired \cup
       {[unit |-> promises[i], state |-> promise_'[promises[i]],
         inTurn |-> /\ \A v \in Units : v < u => settleCalls[v] = 1
                    /\ \A v \in Units : v >= u => settleCalls[v] = 0] :
          i \in {j \in 1..Len(promises) :
                   \A k \in 1..Len(promises') : promises'[k] # promises[j]}}

\* A caller calls resolve on its unit, at any time.
Resolve(u) ==
  /\ settleCalls[u] < MaxSettleCalls
  /\ resolve(u)
  /\ NoteSettle(u, "resolve")
  /\ UNCHANGED <<timerVars, precedingPromise_, idleTicks, observed,
                 storeVars>>

\* A caller calls reject on its unit, at any time.
Reject(u) ==
  /\ settleCalls[u] < MaxSettleCalls
  /\ reject(u)
  /\ NoteSettle(u, "reject")
  /\ UNCHANGED <<timerVars, precedingPromise_, idleTicks, observed,
                 storeVars>>

\* ---------------------------------------------------- getPrecedingPromise
\* tachyfont.promise.prototype.getPrecedingPromise on unit u: the value it
\* returns; the caller then waits on it (or, handed undefined, does not).
getPrecedingPromise(u) ==
  /\ IF precedingPromise_[u] = Undefined
     THEN errors' = reportError_(errors, PRECEDING_PROMISE)
     ELSE UNCHANGED errors
  /\ observed' = [observed EXCEPT ![u] =
                    IF precedingPromise_[u] = Undefined
                    THEN "undefined" ELSE "waiting"]

GetPrecedingPromise(u) ==
  /\ observed[u] = "notAsked"
  /\ getPrecedingPromise(u)
  /\ UNCHANGED <<seqVars, timerVars, promise_, precedingPromise_, histVars,
                 storeVars>>

\* The goog.Promise the caller of u waits on has settled: the caller's
\* then-callback (fulfilled) or catch-callback (rejected) runs.
PrecedingSettled(u) ==
  /\ observed[u] = "waiting"
  /\ promise_[precedingPromise_[u]] # "pending"
  /\ observed' = [observed EXCEPT ![u] = promise_[precedingPromise_[u]]]
  /\ UNCHANGED <<seqVars, timerVars, promise_, precedingPromise_, errors,
                 histVars, storeVars>>

\* ---------------------------------------------------------------- watchdog
\* (variant: reports but leaves the interval armed)
tick_noClear ==
  IF pendingCount_ # 0
  THEN /\ timerReportCount_' = timerReportCount_ + 1
       /\ IF timerReportCount_ + 1 >= GiveUpCount
          THEN /\ errors' = reportError_(errors, LINGERING_PROMISE)
               /\ intervalId_' = intervalId_
          ELSE UNCHANGED <<errors, intervalId_>>
  ELSE /\ timerReportCount_' = 0
       /\ UNCHANGED <<errors, intervalId_>>

\* (variant: a callback that finds pendingCount_ = 0 keeps the count)
tick_noReset ==
  IF pendingCount_ # 0
  THEN /\ timerReportCount_' = timerReportCount_ + 1
       /\ IF timerReportCount_ + 1 >= GiveUpCount
          THEN /\ errors' = reportError_(errors, LINGERING_PROMISE)
               /\ intervalId_' = FALSE
          ELSE UNCHANGED <<errors, intervalId_>>
  ELSE /\ timerReportCount_' = timerReportCount_
       /\ UNCHANGED <<errors, intervalId_>>

\* The setInterval callback of the constructor.
tick ==
  IF pendingCount_ # 0
  THEN /\ timerReportCount_' = timerReportCount_ + 1
       /\ IF timerReportCount_ + 1 >= GiveUpCount
          THEN /\ errors' = reportError_(errors, LINGERING_PROMISE)
               /\ intervalId_' = FALSE      \* clearInterval
          ELSE UNCHANGED <<errors, intervalId_>>
  ELSE /\ timerReportCount_' = 0
       /\ UNCHANGED <<errors, intervalId_>>

\* The interval elapses: the callback runs, as long as the interval has not
\* been cleared.
Tick ==
  /\ intervalId_
  /\ tick
  /\ idleTicks' = IF \E u \in Units : settleCalls[u] = 0
                  THEN (IF idleTicks < GiveUpCount THEN idleTicks + 1
                                                  ELSE idleTicks)
                  ELSE 0
  /\ UNCHANGED <<seqVars, promise_, precedingPromise_, settleCalls,
                 lastSettle, retired, observed, storeVars>>

\* ------------------------------------------------------------------- Spec
\* Callers that may break the protocol: they settle whenever, and as often
\* as, they like.
Next ==
  \/ GetChainedPromise
  \/ \E u \in Units : Resolve(u)
  \/ \E u \in Units : Reject(u)
  \/ \E u \in Units : GetPrecedingPromise(u)
  \/ \E u \in Units : PrecedingSettled(u)

Spec == Init /\ [][Next]_vars

\* The same callers and the watchdog timer (which neither reads nor writes
\* what the callers learn from the preceding promises).
WatchdogNext ==
  \/ GetChainedPromise
  \/ \E u \in Units : Resolve(u)
  \/ \E u \in Units : Reject(u)
  \/ Tick

WatchdogSpec == Init /\ [][WatchdogNext]_vars

\* The same with the browser's timer: while the interval is set, its callback
\* keeps being run.
WatchdogFairSpec == WatchdogSpec /\ WF_vars(Tick)

\* ------------------------------------------------------- ConstructorSpec
\* The constructor seen one step earlier, at line 244: firstPromise has been
\* pushed and firstPromise.resolve() has not run yet.
ConstructorInit ==
  /\ chainedCount_ = 0
  /\ pendingCount_ = 0
  /\ intervalId_ = TRUE
  /\ timerReportCount_ = 0
  /\ promises = <<0>>
  /\ precedingPromise_ = (0 :> 0)
  /\ promise_ = (0 :> "pending")
  /\ errors = [e \in Error_ |-> 0]
  /\ settleCalls = (0 :> 0)
  /\ lastSettle = [unit |-> 0, how |-> "none", short |-> FALSE]
  /\ retired = {}
  /\ idleTicks = 0
  /\ observed = (0 :> "notAsked")
  /\ pc = (0 :> "done")
  /\ op = (0 :> [kind |-> "none"])
  /\ result = (0 :> [kind |-> "none"])
  /\ idb = [n \in StoreNames |-> [k \in Keys |-> NoData]]
  /\ request = (0 :> [state |-> "none"])

\* Line 244, firstPromise.resolve(): the last statement of the constructor.
FirstPromiseResolve ==
  /\ settleCalls[0] = 0
  /\ resolve(0)
  /\ NoteSettle(0, "resolve")
  /\ UNCHANGED <<timerVars, precedingPromise_, idleTicks, observed,
                 storeVars>>

\* The constructor's last statement, then callers that settle whenever, and
\* as often as, they like (nobody holds the object before the constructor
\* has returned).
ConstructorNext ==
  \/ FirstPromiseResolve
  \/ settleCalls[0] = 1 /\ GetChainedPromise
  \/ \E u \in Units : Resolve(u)
  \/ \E u \in Units : Reject(u)

ConstructorSpec == ConstructorInit /\ [][ConstructorNext]_vars

\* ------------------------------------------------------- tachyfont.Persist
\* What IndexedDB does with store.put(data, key) and store.get(key) inside a
\* transaction on the object store `name`.
IdbPut(db, name, key, data) == [db EXCEPT ![name][key] = data]
IdbGet(db, name, key) == db[name][key]

\* tachyfont.Persist.saveData(idb, name, data): the request it makes.
saveData(name, data) == [kind |-> "put", name |-> name, key |-> PutKey,
                         data |-> data]
\* tachyfont.Persist.getData(idb, name): the request it makes.
getData(name) == [kind |-> "get", name |-> name, key |-> GetKey]

\* request.onsuccess of saveData: resolve().
saveDataOnSuccess(res) == [kind |-> "fulfilled", value |-> NoData]
\* (variant: resolves with whatever the request returned)
getDataOnSuccess_noCheck(res) == [kind |-> "fulfilled", value |-> res]

\* request.onsuccess of getData: resolve(result) unless result is undefined.
getDataOnSuccess(res) ==
  IF res # NoData THEN [kind |-> "fulfilled", value |-> res]
                  ELSE [kind |-> "rejected", value |-> "NotFound"]
\* request.onerror of either: reject(e).
onError == [kind |-> "rejected", value |-> "Error"]

Ops == {saveData(n, d) : n \in StoreNames, d \in Data}
         \cup {getData(n) : n \in StoreNames}

\* --------------------------------------------- callers keeping the protocol
\* A caller asks for a chained promise in order to do store operation o.
Request(o) ==
  /\ chainedCount_ < MaxUnits
  /\ getChainedPromise
  /\ NoteIssue("issued", o)
  /\ UNCHANGED <<timerVars, errors, lastSettle, retired, idleTicks, idb>>

\* The caller asks its unit for the preceding promise and waits on it.
Await(u) ==
  /\ pc[u] = "issued"
  /\ observed[u] = "notAsked"
  /\ getPrecedingPromise(u)
  /\ pc' = [pc EXCEPT ![u] = "waiting"]
  /\ UNCHANGED <<seqVars, timerVars, promise_, precedingPromise_, histVars,
                 op, result, idb, request>>

\* The preceding promise has settled: the caller's callback starts the
\* protected work, a saveData or a getData, which makes its IDBRequest.
Begin(u) ==
  /\ pc[u] = "waiting"
  /\ observed[u] = "waiting"
  /\ promise_[precedingPromise_[u]] # "pending"
  /\ observed' = [observed EXCEPT ![u] = promise_[precedingPromise_[u]]]
  /\ pc' = [pc EXCEPT ![u] = "working"]
  /\ request' = [request EXCEPT ![u] = [state |-> "pending"]]
  /\ UNCHANGED <<seqVars, timerVars, promise_, precedingPromise_, errors,
                 histVars, op, result, idb>>

\* IndexedDB carries out a pending request; requests made separately are
\* carried out in any order.
IdbExecute(u) ==
  /\ request[u].state = "pending"
  /\ IF op[u].kind = "put"
     THEN /\ idb' = IdbPut(idb, op[u].name, op[u].key, op[u].data)
          /\ request' = [request EXCEPT ![u] =
                           [state |-> "success", result |-> NoData]]
     ELSE /\ idb' = idb
          /\ request' = [request EXCEPT ![u] =
                           [state |-> "success",
                            result |-> IdbGet(idb, op[u].name, op[u].key)]]
  /\ UNCHANGED <<seqVars, timerVars, promise_, precedingPromise_, errors,
                 histVars, observed, pc, op, result>>

\* IndexedDB fails a pending request without carrying it out.
IdbFail(u) ==
  /\ request[u].state = "pending"
  /\ request' = [request EXCEPT ![u] = [state |-> "error"]]
  /\ UNCHANGED <<seqVars, timerVars, promise_, precedingPromise_, errors,
                 histVars, observed, pc, op, result, idb>>

\* request.onsuccess runs and settles the promise saveData/getData returned.
OnSuccess(u) ==
  /\ request[u].state = "success"
  /\ result[u].kind = "none"
  /\ result' = [result EXCEPT ![u] =
                  IF op[u].kind = "put"
                  THEN saveDataOnSuccess(request[u].result)
                  ELSE getDataOnSuccess(request[u].result)]
  /\ UNCHANGED <<seqVars, timerVars, promise_, precedingPromise_, errors,
                 histVars, observed, pc, op, idb, request>>

\* request.onerror runs and rejects the promise saveData/getData returned.
OnError(u) ==
  /\ request[u].state = "error"
  /\ result[u].kind = "none"
  /\ result' = [result EXCEPT ![u] = onError]
  /\ UNCHANGED <<seqVars, timerVars, promise_, precedingPromise_, errors,
                 histVars, observed, pc, op, idb, request>>

\* The store operation succeeded: the caller resolves its unit.
FinishResolve(u) ==
  /\ pc[u] = "working"
  /\ result[u].kind = "fulfilled"
  /\ resolve(u)
  /\ NoteSettle(u, "resolve")
  /\ pc' = [pc EXCEPT ![u] = "done"]
  /\ UNCHANGED <<timerVars, precedingPromise_, idleTicks, observed, op,
                 result, idb, request>>

\* The store operation failed: the caller rejects its unit.
FinishReject(u) ==
  /\ pc[u] = "working"
  /\ result[u].kind = "rejected"
  /\ reject(u)
  /\ NoteSettle(u, "reject")
  /\ pc' = [pc EXCEPT ![u] = "done"]
  /\ UNCHANGED <<timerVars, precedingPromise_, idleTicks, observed, op,
                 result, idb, request>>

ProtocolNext ==
  \/ \E o \in Ops : Request(o)
  \/ \E u \in Units : Await(u)
  \/ \E u \in Units : Begin(u)
  \/ \E u \in Units : IdbExecute(u)
  \/ \E u \in Units : IdbFail(u)
  \/ \E u \in Units : OnSuccess(u)
  \/ \E u \in Units : OnError(u)
  \/ \E u \in Units : FinishResolve(u)
  \/ \E u \in Units : FinishReject(u)

ProtocolSpec == Init /\ [][ProtocolNext]_vars

\* The same with the browser's event loop: a callback that is ready to run
\* (a then-callback of a settled promise, an IDBRequest event) or a caller
\* that can go on does not wait for ever.  Nothing obliges anybody to ask
\* for another chained promise.
CallerStep ==
  \E u \in Units :
    \/ Await(u) \/ Begin(u) \/ IdbExecute(u) \/ IdbFail(u)
    \/ OnSuccess(u) \/ OnError(u) \/ FinishResolve(u) \/ FinishReject(u)

ProtocolFairSpec == ProtocolSpec /\ WF_vars(CallerStep)

\* ================================================================ claims
Settled(u) == promise_[u] # "pending"
\* the promise unit u has to wait for has settled
Released(u) == promise_[precedingPromise_[u]] # "pending"
Begun(u) == pc[u] \in {"working", "done"}
NoRepeatedSettle == \A u \in Units : settleCalls[u] <= 1
MaxOf(S) == CHOOSE m \in S : \A x \in S : x <= m
\* the step is a resolve/reject call (no unit is issued, one more call noted)
SettleStep == chainedCount_' = chainedCount_ /\ settleCalls' # settleCalls
\* the step is a run of the interval callback (no unit issued, no call noted)
TickStep == chainedCount_' = chainedCount_ /\ settleCalls' = settleCalls

\* C1 (ProtocolSpec): when every caller waits for its preceding promise
\* before its protected work and settles its unit only after that work, the
\* work of unit u has not begun unless unit u-1 has settled, at most one
\* caller is inside its protected work, and the work is done in issue order.
C1_Fifo ==
  /\ \A u \in Units : Begun(u) => Settled(u - 1)
  /\ \A u, v \in Units : (pc[u] = "working" /\ pc[v] = "working") => u = v
  /\ \A u \in Units : Begun(u) => \A v \in 1..(u - 1) : pc[v] = "done"

\* C1 witness: three units issued, the first has finished, the second is
\* inside its work and the third is waiting for it.
C1_Witness ==
  /\ {1, 2, 3} \subseteq Units
  /\ pc[1] = "done" /\ pc[2] = "working" /\ pc[3] = "waiting"

\* C2 as stated: for units n-1, n, n+1 the promise unit n+1 waits for is not
\* settled before unit n-1 has settled, also when n is settled early.
C2_NoEarlyRelease ==
  \A n \in Units :
    ((n - 1) \in Units /\ (n + 1) \in Units /\ Released(n + 1))
       => Settled(n - 1)

\* C2 as amended: the promise unit n+1 waits for is the promise of unit n
\* itself, so it is settled exactly when unit n has been settled, whether or
\* not unit n-1 has settled.
C2_ReleasedByOwnSettle ==
  \A n \in Units : (n + 1) \in Units => (Released(n + 1) <=> Settled(n))

\* C2 witness: unit n was settled while unit n-1 is still pending, and the
\* promise unit n+1 waits for is settled.
C2_Witness ==
  \E n \in Units :
    /\ (n - 1) \in Units /\ (n + 1) \in Units
    /\ ~Settled(n - 1) /\ Settled(n) /\ Released(n + 1)

\* C3 (Spec): as long as no unit has been settled more than once,
\* pendingCount_ is the number of units issued minus the number of units
\* settled (0 after M issues and M settles, 1 after M issues and M-1).
C3_PendingCount ==
  NoRepeatedSettle =>
    pendingCount_ =
      chainedCount_ - Cardinality({u \in Units : settleCalls[u] = 1})

\* C3 witness: several units, each settled once, the first one last.
C3_Witness ==
  /\ chainedCount_ >= 3
  /\ \A u \in Units : settleCalls[u] = 1
  /\ lastSettle.unit = 1
  /\ pendingCount_ = 0

\* C4 as stated: a second resolve of a unit that was resolved before changes
\* neither the queue nor pendingCount_.
C4_SecondResolveNoEffect ==
  [][\A u \in Units :
       ( /\ settleCalls[u] >= 1
         /\ promise_[u] = "fulfilled"
         /\ settleCalls'[u] = settleCalls[u] + 1
         /\ lastSettle'.how = "resolve" )
       => (promises' = promises /\ pendingCount_' = pendingCount_)]_vars

\* C5 (Spec): the preceding promise of every chained unit is the promise of
\* the unit issued immediately before it (of unit 0 for the first), so
\* getPrecedingPromise never returns undefined and never reports
\* PRECEDING_PROMISE.
C5_PrecedingIsPredecessor ==
  /\ \A u \in Units : precedingPromise_[u] = u - 1
  /\ \A u \in Units : observed[u] # "undefined"
  /\ errors[PRECEDING_PROMISE] = 0

\* C5 witness: a unit issued after its predecessor had been settled twice
\* (the second time on a short queue) asked for its preceding promise.
C5_Witness ==
  \E u \in Units :
    /\ u >= 2
    /\ settleCalls[u - 1] = 2
    /\ errors[RESOLVE_CHAINED_COUNT] + errors[REJECT_CHAINED_COUNT] >= 1
    /\ observed[u] = "waiting"
    /\ observed[1] # "notAsked"

C7_CReadsTwo ==
  \A n \in StoreNames :
    ( /\ 3 \in Units
      /\ op[1] = saveData(n, "1")
      /\ op[2] = saveData(n, "2")
      /\ op[3] = getData(n)
      /\ request[2].state = "success" )
    => /\ request[3].state = "success" => request[3].result = "2"
       /\ result[3].kind = "fulfilled" => result[3].value = "2"
       /\ result[3].kind = "rejected" => request[3].state = "error"

\* C7 witness: the scenario has run to its end and C holds "2".
C7_Witness ==
  /\ 3 \in Units
  /\ op[1] = saveData(IDB_BASE, "1")
  /\ op[2] = saveData(IDB_BASE, "2")
  /\ op[3] = getData(IDB_BASE)
  /\ result[1].kind = "fulfilled"
  /\ result[3] = [kind |-> "fulfilled", value |-> "2"]
  /\ pc[3] = "done"

\* C8 as stated: no caller waiting on its preceding promise is handed the
\* rejection of another unit.
C8_NoUnitSeesFailure ==
  \A u \in Units : observed[u] # "rejected"

\* C8 as amended: the rejection of unit n is handed to those waiting on the
\* promise of n, and these include the caller of unit n+1, whose preceding
\* promise it is; the caller of any other unit is not handed it.
C8_OnlySuccessorSeesFailure ==
  /\ \A u \in Units : observed[u] = "rejected" => promise_[u - 1] = "rejected"
  /\ \A u \in Units : observed[u] = "fulfilled" => promise_[u - 1] = "fulfilled"
  /\ \A u \in Units :
       (observed[u] = "waiting" /\ Settled(u - 1)) => ENABLED PrecedingSettled(u)

\* C8 witness: unit 1 was rejected, the caller of unit 2 was handed the
\* rejection and the caller of unit 3 was not.
C8_Witness ==
  /\ {1, 2, 3} \subseteq Units
  /\ promise_[1] = "rejected"
  /\ observed[2] = "rejected"
  /\ observed[3] = "fulfilled"

\* C9 (ProtocolSpec): a get that completes returns the data of the latest
\* completed put into the same object store, unchanged, and fails with
\* NotFound when nothing was put into that store.
C9_RoundTrip ==
  \A u \in Units :
    (op[u].kind = "get" /\ request[u].state = "success"
       /\ result[u].kind # "none")
    => LET puts == {v \in 1..(u - 1) :
                      /\ op[v].kind = "put"
                      /\ op[v].name = op[u].name
                      /\ request[v].state = "success"}
       IN IF puts = {}
          THEN result[u] = [kind |-> "rejected", value |-> "NotFound"]
          ELSE result[u] = [kind |-> "fulfilled",
                            value |-> op[MaxOf(puts)].data]

\* C9 witness: a get on the store before anything was put failed, and a get
\* after a completed put of the empty blob returned the empty blob.
C9_Witness ==
  /\ {1, 2, 3} \subseteq Units
  /\ op[1] = getData(IDB_BASE)
  /\ result[1] = [kind |-> "rejected", value |-> "NotFound"]
  /\ op[2] = saveData(IDB_BASE, "")
  /\ result[2].kind = "fulfilled"
  /\ op[3] = getData(IDB_BASE)
  /\ result[3] = [kind |-> "fulfilled", value |-> ""]

C11_RetiredWereSettled ==
  \A r \in retired : r.state # "pending"

\* C11 as amended: resolve and reject remove the head of the queue, the
\* oldest entry, without looking at its state.  The entries leave in issue
\* order; the unit removed by a call made in turn (the first call on the
\* oldest unit nobody has settled, no unit settled twice) has been settled,
\* while a call on a unit issued later than that one can remove a unit that
\* is still pending.
C11_HeadRetired ==
  /\ \A r \in retired : \A v \in 0..r.unit : \E x \in retired : x.unit = v
  /\ \A r \in retired : \A i \in 1..Len(promises) : promises[i] > r.unit
  /\ \A r \in retired : r.inTurn => r.state # "pending"

\* C11 witness: one entry was removed, settled, by a call made in turn, and
\* another was removed while it was still pending.
C11_Witness ==
  /\ \E r \in retired : r.inTurn /\ r.state # "pending"
  /\ \E r \in retired : r.state = "pending"
\* C12: in every reachable state, a queue of length <= 1 implies that every
\* unit issued by getChainedPromise has been settled.
C12_ShortQueueAllSettled ==
  Len(promises) <= 1 => \A u \in Units : Settled(u)

\* C13: after the constructor and any sequence of getChainedPromise, resolve
\* and reject calls, repeated ones included, the queue holds at least one
\* entry; a resolve/reject call removes an entry only when the queue is
\* longer than 1, and then it removes exactly the head and nothing else.
C13_NeverEmpty ==
  /\ [](Len(promises) >= 1)
  /\ [][SettleStep =>
          IF Len(promises) > 1
          THEN promises' = Tail(promises) \/ promises' = promises
          ELSE promises' = promises]_vars

\* C13 witness: a repeated resolve/reject call found the queue at length 1,
\* after earlier calls had removed entries, and the queue still has its one
\* entry.
C13_Witness ==
  /\ lastSettle.short
  /\ lastSettle.unit # 0
  /\ settleCalls[lastSettle.unit] >= 2
  /\ retired # {}
  /\ Len(promises) = 1

\* C14: as long as no unit has been settled more than once, in whatever
\* order the units are settled, neither RESOLVE_CHAINED_COUNT nor
\* REJECT_CHAINED_COUNT has been reported and no resolve/reject call on a
\* chained unit has found the queue at length <= 1; the only call that found
\* it so is the constructor's firstPromise.resolve(), which reported nothing.
C14_NoShortQueueReport ==
  NoRepeatedSettle =>
    /\ errors[RESOLVE_CHAINED_COUNT] = 0
    /\ errors[REJECT_CHAINED_COUNT] = 0
    /\ (lastSettle.short <=> (lastSettle.unit = 0))

\* C14 witness: several units were issued and every one was settled exactly
\* once, not in issue order (one left the queue while still pending), some
\* by resolve and some by reject.
C14_Witness ==
  /\ chainedCount_ >= 2
  /\ \A u \in Units : settleCalls[u] = 1
  /\ \E r \in retired : r.state = "pending"
  /\ \E u \in Units : promise_[u] = "fulfilled"
  /\ \E u \in Units : promise_[u] = "rejected"
  /\ Len(promises) = 1

\* C15 (ConstructorSpec): a resolve/reject call that finds the queue at
\* length <= 1 settles the unit's promise as any call does, reports its
\* CHAINED_COUNT error (once) exactly when chainedCount_ # 0, and leaves
\* promises, pendingCount_ and chainedCount_ as they were.
C15_ShortQueueSettle ==
  [][(SettleStep /\ Len(promises) <= 1) =>
       /\ UNCHANGED seqVars
       /\ promise_'[lastSettle'.unit] # "pending"
       /\ errors' = IF chainedCount_ = 0 THEN errors
                    ELSE reportError_(errors,
                           IF lastSettle'.how = "resolve"
                           THEN RESOLVE_CHAINED_COUNT
                           ELSE REJECT_CHAINED_COUNT)]_vars

\* C15 witness: the constructor's resolve found the short queue with
\* chainedCount_ = 0 and reported nothing; later a resolve and a reject on
\* chained units found the queue at length 1, and each was reported.
C15_Witness ==
  /\ settleCalls[0] = 1
  /\ lastSettle.short
  /\ lastSettle.unit # 0
  /\ errors[RESOLVE_CHAINED_COUNT] >= 1
  /\ errors[REJECT_CHAINED_COUNT] >= 1
  /\ Len(promises) = 1

\* C16 (WatchdogSpec): a run of the interval callback that finds
\* pendingCount_ = 0 sets timerReportCount_ to 0, and one that finds
\* pendingCount_ # 0 adds one to it; LINGERING_PROMISE is reported only by a
\* callback that finds pendingCount_ # 0 and brings the count to 10, that is,
\* the tenth in a row to find pendingCount_ # 0 (the count never exceeds the
\* number of callbacks in a row during which some unit was unsettled).
C16_MissStreak ==
  /\ [][TickStep =>
          /\ pendingCount_ = 0 => timerReportCount_' = 0
          /\ pendingCount_ # 0 => timerReportCount_' = timerReportCount_ + 1]_vars
  /\ [][errors'[LINGERING_PROMISE] # errors[LINGERING_PROMISE] =>
          /\ TickStep
          /\ pendingCount_ # 0
          /\ timerReportCount_' = GiveUpCount
          /\ errors[LINGERING_PROMISE] = 0]_vars
  /\ [](timerReportCount_ <= idleTicks)
  /\ [](errors[LINGERING_PROMISE] >= 1 => timerReportCount_ = GiveUpCount)

\* C16 witness: the count was brought back to 0 by a callback that found
\* pendingCount_ = 0 in the middle of a run of callbacks during which a unit
\* stayed unsettled, and has been incremented again since.
C16_Witness ==
  /\ 0 < timerReportCount_
  /\ timerReportCount_ < idleTicks
  /\ pendingCount_ # 0

\* C17 (WatchdogFairSpec): while some issued unit has not been settled and no
\* unit has been settled more than once, pendingCount_ >= 1; if that stays
\* so for ever and the interval callback keeps running, LINGERING_PROMISE is
\* eventually reported.
C17_LeakReported ==
  /\ []((NoRepeatedSettle /\ \E u \in Units : settleCalls[u] = 0)
          => pendingCount_ >= 1)
  /\ (<>[](NoRepeatedSettle /\ \E u \in Units : settleCalls[u] = 0))
       => <>(errors[LINGERING_PROMISE] >= 1)

\* C17 witness: one unit was settled, once, another never was, pendingCount_
\* is still counting it and LINGERING_PROMISE has been reported.
C17_Witness ==
  /\ NoRepeatedSettle
  /\ \E u, v \in Units : settleCalls[u] = 0 /\ settleCalls[v] = 1
  /\ pendingCount_ >= 1
  /\ errors[LINGERING_PROMISE] = 1

\* C18 (ConstructorSpec): from every reachable state and for every unit
\* (the constructor's firstPromise included), resolve and reject
\* lead to the same promises, pendingCount_ and chainedCount_, both settle
\* the unit's promise if it was pending and touch no other promise, and one
\* reports (RESOLVE_CHAINED_COUNT) exactly when the other does
\* (REJECT_CHAINED_COUNT); each reports nothing else.
C18_SameBookkeeping ==
  \A u \in DOMAIN promise_ :
    LET Queues == {promises, Tail(promises),
                   SubSeq(promises, 1, Len(promises) - 1)}
        Counts == {pendingCount_ - 1, pendingCount_, pendingCount_ + 1}
        Outcome(q, n, reports, code) ==
          /\ promises' = q
          /\ pendingCount_' = n
          /\ chainedCount_' = chainedCount_
          /\ promise_'[u] # "pending"
          /\ \A v \in DOMAIN promise_ \ {u} : promise_'[v] = promise_[v]
          /\ errors' = IF reports THEN reportError_(errors, code) ELSE errors
    IN /\ \A q \in Queues : \A n \in Counts : \A reports \in BOOLEAN :
            (ENABLED (resolve(u) /\ Outcome(q, n, reports,
                                           RESOLVE_CHAINED_COUNT)))
              <=> (ENABLED (reject(u) /\ Outcome(q, n, reports,
                                            REJECT_CHAINED_COUNT)))
       /\ \E q \in Queues : \E n \in Counts : \E reports \in BOOLEAN :
            ENABLED (resolve(u) /\ Outcome(q, n, reports,
                                          RESOLVE_CHAINED_COUNT))

\* C18 witness: both operations have been used, one unit is fulfilled and one
\* rejected, each has found the queue short and reported it, and the queue
\* is again longer than 1, so that the next call of either kind shifts it.
C18_Witness ==
  /\ \E u \in Units : promise_[u] = "fulfilled"
  /\ \E u \in Units : promise_[u] = "rejected"
  /\ errors[RESOLVE_CHAINED_COUNT] >= 1
  /\ errors[REJECT_CHAINED_COUNT] >= 1
  /\ Len(promises) > 1

\* C19: after the constructor and any sequence of getChainedPromise, resolve
\* and reject calls (repeated and out-of-order calls included) pendingCount_
\* is the queue length minus 1, and is never negative.
C19_PendingIsQueueLength ==
  /\ pendingCount_ = Len(promises) - 1
  /\ pendingCount_ >= 0

\* C19 witness: a unit was settled twice, another left the queue while it was
\* pending and is still unsettled, and pendingCount_ is back at 0 with one
\* entry in the queue.
C19_Witness ==
  /\ \E u \in Units : settleCalls[u] >= 2
  /\ \E r \in retired : r.state = "pending" /\ promise_[r.unit] = "pending"
  /\ pendingCount_ = 0
  /\ Len(promises) = 1

\* C20 (ProtocolFairSpec): when the callers keep the protocol (wait for the
\* preceding promise, do their work, then settle their unit once) and none
\* of their steps is put off for ever, from some point on every unit that
\* has been issued is settled (a settled promise stays settled) and
\* pendingCount_ is 0.
C20_NoDeadlock ==
  <>[](pendingCount_ = 0 /\ \A u \in Units : Settled(u))

\* C20 witness: several units were issued, each caller waited its turn and
\* resolved its unit, and pendingCount_ is back at 0.
C20_Witness ==
  /\ chainedCount_ >= 2
  /\ \A u \in Units : pc[u] = "done" /\ promise_[u] = "fulfilled"
  /\ \A u \in Units : observed[u] = "fulfilled"
  /\ pendingCount_ = 0

====
